---- MODULE Spec2Model ----
(***************************************************************************)
(* A model of the env-vars configuration resolver: Python values and the   *)
(* cast helpers of config/utils.py, the plain resolver (Config), the gated *)
(* resolver of config/envconfig.py (OptionalConfig, ByRelevancy,           *)
(* EnvConfig), the write-once mapping (EnvMapping) and the cached resolver *)
(* (CachedConfig).                                                         *)
(*                                                                         *)
(* Python strings are sequences of one-character strings, so that int(),   *)
(* str.lower() and str.casefold() are computed and not looked up.  Every   *)
(* other Python value is a record tagged by its runtime type.  A call's    *)
(* outcome is either Ok(value) or Raise(exception).                        *)
(*                                                                         *)
(* Records list their fields in the order TLC normalises them to (the      *)
(* order in which the names first occur in this module), so that a value   *)
(* shared by TLC's workers is never reordered in place under them.         *)
(***************************************************************************)
EXTENDS Integers, Sequences, FiniteSets, TLC

VARIABLES
    cfg,                \* the resolver under use (or NoConfig)
    by_relevancy_env,   \* the attribute `env` of each ByRelevancy object
    last,               \* the last operation performed and its outcome
    env_mapping,        \* the write-once mapping: [_mapping, _already_read]
    cached,             \* the cached resolver's per-name memo
    pure,               \* a pure helper's inputs and its outcome
    held                \* a resolver built earlier and still referenced

vars == <<cfg, by_relevancy_env, last, env_mapping, cached, pure, held>>

---------------------------------------------------------------------------
(* Python values                                                           *)

PyStr(s) == [s |-> s, t |-> "str"]
PyInt(i) == [t |-> "int", i |-> i]
PyBool(b) == [t |-> "bool", b |-> b]
PyBytes(s) == [t |-> "bytes", y |-> s]
PyFloat(s) == [t |-> "float", f |-> s]
PyEnum(cls, member) == [t |-> "enum", cls |-> cls, member |-> member]
PyPath(s) == [t |-> "Path", p |-> s]
PyFunc(name) == [t |-> "function", name |-> name]
PyNone == [t |-> "NoneType"]

\* class MISSING: the sentinel is the class object itself
MISSING == [t |-> "type", name |-> "MISSING"]

Ok(v) == [kind |-> "ok", val |-> v]
Raise(e) == [kind |-> "raise", exc |-> e]

NoCause == [type |-> "NoCause"]
Exc(type, args) == [type |-> type, args |-> args, cause |-> NoCause]
ExcFrom(type, args, cause) == [type |-> type, args |-> args, cause |-> cause]

\* a message: a format string and the values formatted into it
Msg(text) == [t |-> "str", text |-> text, parts |-> <<>>]
Fmt(text, parts) == [t |-> "str", text |-> text, parts |-> parts]

IsOk(o) == o.kind = "ok"
Raises(o, type) == o.kind = "raise" /\ o.exc.type = type

\* a == b for the value types of the model: bool is a subclass of int, so
\* True == 1 and False == 0; every other pair of different types is unequal
IsNumber(v) == v.t \in {"int", "bool"}
NumberOf(v) == IF v.t = "int" THEN v.i ELSE IF v.b THEN 1 ELSE 0
PyEq(a, b) ==
    IF IsNumber(a) /\ IsNumber(b) THEN NumberOf(a) = NumberOf(b) ELSE a = b

\* callable(v)
Callable(v) == v.t \in {"function", "type"}

---------------------------------------------------------------------------
(* Strings                                                                 *)

Digits == {"0", "1", "2", "3", "4", "5", "6", "7", "8", "9"}
DigitVal ==
    "0" :> 0 @@ "1" :> 1 @@ "2" :> 2 @@ "3" :> 3 @@ "4" :> 4 @@
    "5" :> 5 @@ "6" :> 6 @@ "7" :> 7 @@ "8" :> 8 @@ "9" :> 9

UpperToLower ==
    "A" :> "a" @@ "B" :> "b" @@ "C" :> "c" @@ "D" :> "d" @@ "E" :> "e" @@
    "F" :> "f" @@ "G" :> "g" @@ "H" :> "h" @@ "I" :> "i" @@ "J" :> "j" @@
    "K" :> "k" @@ "L" :> "l" @@ "M" :> "m" @@ "N" :> "n" @@ "O" :> "o" @@
    "P" :> "p" @@ "Q" :> "q" @@ "R" :> "r" @@ "S" :> "s" @@ "T" :> "t" @@
    "U" :> "u" @@ "V" :> "v" @@ "W" :> "w" @@ "X" :> "x" @@ "Y" :> "y" @@
    "Z" :> "z"

LowerChar(c) == IF c \in DOMAIN UpperToLower THEN UpperToLower[c] ELSE c

\* str.lower() and, on ASCII, str.casefold()
Lower(s) == [i \in DOMAIN s |-> LowerChar(s[i])]

RECURSIVE LStrip(_)
LStrip(s) == IF s # <<>> /\ Head(s) = " " THEN LStrip(Tail(s)) ELSE s

RECURSIVE RStrip(_)
RStrip(s) ==
    IF s # <<>> /\ s[Len(s)] = " " THEN RStrip(SubSeq(s, 1, Len(s) - 1)) ELSE s

\* str.strip()
Strip(s) == RStrip(LStrip(s))

RECURSIVE DigitsValue(_)
DigitsValue(s) ==
    IF s = <<>> THEN 0
    ELSE 10 * DigitsValue(SubSeq(s, 1, Len(s) - 1)) + DigitVal[s[Len(s)]]

\* the string literals of the sources and the tests
S_empty == <<>>
S_0 == <<"0">>
S_1 == <<"1">>
S_01 == <<"0", "1">>
S_sp1 == <<" ", "1">>
S_42 == <<"4", "2">>
S_true == <<"t", "r", "u", "e">>
S_True == <<"T", "r", "u", "e">>
S_false == <<"f", "a", "l", "s", "e">>
S_False == <<"F", "a", "l", "s", "e">>
S_TRUE == <<"T", "R", "U", "E">>
S_fAlSe == <<"f", "A", "l", "S", "e">>
S_null == <<"n", "u", "l", "l">>
S_none == <<"n", "o", "n", "e">>
S_None == <<"N", "o", "n", "e">>
S_other == <<"o", "t", "h", "e", "r">>
S_Other == <<"O", "t", "h", "e", "r">>
S_another == <<"a", "n", "o", "t", "h", "e", "r">>
S_value == <<"v", "a", "l", "u", "e">>
S_VALUE == <<"V", "A", "L", "U", "E">>
S_invalid == <<"i", "n", "v", "a", "l", "i", "d">>
S_two == <<"t", "w", "o">>
S_3p0 == <<"3", ".", "0">>
S_teste == <<"t", "e", "s", "t", "e">>
S_test == <<"t", "e", "s", "t">>
S_local == <<"l", "o", "c", "a", "l">>
S_dev == <<"d", "e", "v">>
S_prd == <<"p", "r", "d">>
S_anything == <<"a", "n", "y", "t", "h", "i", "n", "g">>
S_dflt == <<"d", "f", "l", "t">>
S_reprMISSING == <<"<", "c", "l", "a", "s", "s", " ", "M", "I", "S", "S", "I", "N", "G", ">">>

---------------------------------------------------------------------------
(* Builtin conversions used as casts                                       *)

\* the text before the first "." of s, and the text after it
RECURSIVE UpToDot(_)
UpToDot(s) ==
    IF s = <<>> \/ Head(s) = "." THEN <<>> ELSE <<Head(s)>> \o UpToDot(Tail(s))

AfterDot(s) == SubSeq(s, Len(UpToDot(s)) + 2, Len(s))

RECURSIVE RStripZeros(_)
RStripZeros(s) ==
    IF s # <<>> /\ s[Len(s)] = "0" THEN RStripZeros(SubSeq(s, 1, Len(s) - 1)) ELSE s

\* int(v): surrounding blanks and one sign are accepted, then digits only
\* (digit grouping with "_" is left out: no input of the model holds one)
IntOf(v) ==
    IF v.t = "int" THEN Ok(v)
    ELSE IF v.t = "bool" THEN Ok(PyInt(NumberOf(v)))
    ELSE IF v.t = "float"
         THEN IF Head(v.f) = "-" THEN Ok(PyInt(0 - DigitsValue(UpToDot(Tail(v.f)))))
              ELSE Ok(PyInt(DigitsValue(UpToDot(v.f))))
    ELSE IF v.t # "str" THEN Raise(Exc("TypeError", <<Msg("int"), v>>))
    ELSE LET stripped == Strip(v.s)
             signed == stripped # <<>> /\ Head(stripped) \in {"+", "-"}
             body == IF signed THEN Tail(stripped) ELSE stripped
         IN IF body = <<>> \/ \E i \in DOMAIN body : body[i] \notin Digits
            THEN Raise(Exc("ValueError", <<Msg("int"), v>>))
            ELSE IF signed /\ Head(stripped) = "-"
                 THEN Ok(PyInt(0 - DigitsValue(body)))
                 ELSE Ok(PyInt(DigitsValue(body)))

RECURSIVE NatToStr(_)
NatToStr(n) ==
    LET digit == CHOOSE d \in Digits : DigitVal[d] = n % 10
    IN IF n < 10 THEN <<digit>> ELSE Append(NatToStr(n \div 10), digit)

\* repr of the float with the given sign, whole part and fraction digits
FloatRepr(negative, whole, frac) ==
    (IF negative THEN <<"-">> ELSE <<>>)
        \o NatToStr(DigitsValue(whole)) \o <<".">>
        \o (IF RStripZeros(frac) = <<>> THEN <<"0">> ELSE RStripZeros(frac))

\* float(v), a float being held as its repr: surrounding blanks and one sign
\* are accepted, then digits with at most one "." (exponents, inf, nan and
\* digit grouping are left out: no input of the model holds one; the values
\* are short enough to be exact)
FloatOf(v) ==
    IF v.t = "float" THEN Ok(v)
    ELSE IF IsNumber(v)
         THEN Ok(PyFloat(FloatRepr(NumberOf(v) < 0,
                                   NatToStr(IF NumberOf(v) < 0 THEN 0 - NumberOf(v)
                                            ELSE NumberOf(v)),
                                   <<>>)))
    ELSE IF v.t # "str" THEN Raise(Exc("TypeError", <<Msg("float"), v>>))
    ELSE LET stripped == Strip(v.s)
             signed == stripped # <<>> /\ Head(stripped) \in {"+", "-"}
             body == IF signed THEN Tail(stripped) ELSE stripped
             whole == UpToDot(body)
             frac == AfterDot(body)
         IN IF \/ whole \o frac = <<>>
               \/ \E i \in DOMAIN whole : whole[i] \notin Digits
               \/ \E i \in DOMAIN frac : frac[i] \notin Digits
            THEN Raise(Exc("ValueError", <<Msg("float"), v>>))
            ELSE Ok(PyFloat(FloatRepr(signed /\ Head(stripped) = "-", whole, frac)))

\* str(v)
StrOf(v) ==
    CASE v.t = "str" -> Ok(v)
      [] v.t = "int" ->
            Ok(PyStr(IF v.i < 0 THEN <<"-">> \o NatToStr(0 - v.i) ELSE NatToStr(v.i)))
      [] v.t = "bool" -> Ok(PyStr(IF v.b THEN S_True ELSE S_False))
      [] v.t = "NoneType" -> Ok(PyStr(S_None))
      [] v.t = "bytes" -> Ok(PyStr(<<"b", "'">> \o v.y \o <<"'">>))
      [] v.t = "float" -> Ok(PyStr(v.f))
      [] v.t = "Path" -> Ok(PyStr(v.p))
      [] v.t = "enum" -> Ok(PyStr(<<v.cls, ".", v.member>>))
      [] v.t = "function" -> Ok(PyStr(<<"<", "function", " ", v.name, ">">>))
      [] OTHER -> Ok(PyStr(S_reprMISSING))

\* bool(v): truthiness
BoolOf(v) ==
    CASE v.t = "str" -> Ok(PyBool(v.s # <<>>))
      [] v.t = "bytes" -> Ok(PyBool(v.y # <<>>))
      [] v.t = "int" -> Ok(PyBool(v.i # 0))
      [] v.t = "bool" -> Ok(v)
      [] v.t = "NoneType" -> Ok(PyBool(FALSE))
      [] OTHER -> Ok(PyBool(TRUE))

\* str.encode(v): the same code units, as bytes
EncodeOf(v) ==
    IF v.t = "str" THEN Ok(PyBytes(v.s)) ELSE Raise(Exc("TypeError", <<Msg("encode"), v>>))

\* The enumerations: each member's value
EnumMembers ==
    [Test |-> ("VALUE" :> S_value),
     Env |-> ("TEST" :> S_test @@ "LOCAL" :> S_local @@ "DEV" :> S_dev @@ "PRD" :> S_prd)]

\* cls(v) for an Enum class: the member whose value is v, or ValueError
EnumOf(cls, v) ==
    LET members == EnumMembers[cls]
        hit == {m \in DOMAIN members : v.t = "str" /\ members[m] = v.s}
    IN IF v.t = "enum" /\ v.cls = cls THEN Ok(v)
       ELSE IF hit = {} THEN Raise(Exc("ValueError", <<Msg(cls), v>>))
       ELSE Ok(PyEnum(cls, CHOOSE m \in hit : TRUE))

---------------------------------------------------------------------------
(* The cast helpers of config/utils.py                                     *)

\* isinstance(v, typ) for the types the helpers test
IsInstance(v, typ) == v.t = typ \/ (typ = "int" /\ v.t = "bool")

\* instance_is_casted(expects, onmiss)(value), given onmiss(value)
instance_is_casted(expects, value, missed) ==
    IF IsInstance(value, expects) THEN Ok(value) ELSE missed

\* a boolean_cast as its docstring words it: 1 and true are True, everything
\* else is False
boolean_cast_body_docstring(string) ==
    IF string.t # "str" THEN Raise(Exc("AttributeError", <<Msg("lower"), string>>))
    ELSE Ok(PyBool(Lower(string.s) \in {S_true, S_1}))

\* the undecorated boolean_cast: the table's entry for string.lower(), or None
boolean_cast_body(string) ==
    IF string.t # "str" THEN Raise(Exc("AttributeError", <<Msg("lower"), string>>))
    ELSE LET key == Lower(string.s)
         IN CASE key = S_true -> Ok(PyBool(TRUE))
              [] key = S_false -> Ok(PyBool(FALSE))
              [] key = S_1 -> Ok(PyBool(TRUE))
              [] key = S_0 -> Ok(PyBool(FALSE))
              [] key = S_empty -> Ok(PyBool(FALSE))
              [] OTHER -> Ok(PyNone)

\* boolean_cast(value): the lenient form
boolean_cast(value) == instance_is_casted("bool", value, boolean_cast_body(value))

\* boolean_cast.strict(value): a None result is a cast failure
strict(value, out) ==
    IF IsOk(out) /\ out.val = PyNone
    THEN Raise(Exc("InvalidCast", <<Msg("boolean_cast returned None"), value>>))
    ELSE out

boolean_cast_strict(value) == strict(value, boolean_cast(value))

null_cast_body(val) ==
    IF val.t # "str" THEN Raise(Exc("AttributeError", <<Msg("casefold"), val>>))
    ELSE IF Lower(val.s) \notin {S_null, S_none, S_empty}
         THEN Raise(Exc("InvalidCast",
                        <<Msg("Null values should match ('null', 'none', '')")>>))
         ELSE Ok(PyNone)

\* null_cast(val)
null_cast(val) == instance_is_casted("NoneType", val, null_cast_body(val))

\* the filesystem: the paths that exist
ExistingPaths == {S_teste}

valid_path_body(val) ==
    IF val.t # "str" THEN Raise(Exc("TypeError", <<Msg("Path"), val>>))
    ELSE IF val.s \notin ExistingPaths
         THEN Raise(Exc("FileNotFoundError",
                        <<Fmt("Path {valpath!s} is not valid path", <<PyPath(val.s)>>),
                          PyPath(val.s)>>))
         ELSE Ok(PyPath(val.s))

\* valid_path(val)
valid_path(val) == instance_is_casted("Path", val, valid_path_body(val))

\* the rules of the tests, given int(x): int(x) < 40 and int(x) > 40
RuleOn(rule, n) ==
    IF ~IsOk(n) THEN n
    ELSE IF rule = "less_than_40" THEN Ok(PyBool(n.val.i < 40))
    ELSE Ok(PyBool(n.val.i > 40))

ApplyRule(rule, val) == RuleOn(rule, IntOf(val))

\* caster(val) of with_rule(rule), given rule(val)
caster(rule, val, passed) ==
    IF ~IsOk(passed) THEN passed
    ELSE IF ~passed.val.b
         THEN Raise(Exc("InvalidEnv",
                        <<Fmt("Value {val} did not pass rule check {rule.__name__}",
                              <<val, PyFunc(rule)>>),
                          PyFunc(rule), val>>))
         ELSE Ok(val)

\* with_rule(rule)(val)
with_rule(rule, val) == caster(rule, val, ApplyRule(rule, val))

\* type(arg) of a literal's argument: the class of an enum member, else the tag
TypeOf(arg) == IF arg.t = "enum" THEN arg.cls ELSE arg.t

\* _cast_map: the caster of each supported type
CastMapTypes == {"str", "bool", "int", "bytes", "NoneType"}
cast_map(typ, val) ==
    CASE typ = "str" -> StrOf(val)
      [] typ = "bool" -> boolean_cast_strict(val)
      [] typ = "int" -> IntOf(val)
      [] typ = "bytes" -> EncodeOf(val)
      [] typ = "NoneType" -> null_cast(val)

\* a _try_cast without its try: what a caster raises is raised
except_Exception_reraised(val, out) == out

\* _try_cast(cast, val): the caster's result, the value itself when the caster
\* raises, and InvalidCast for a type that has no caster and is no Enum
except_Exception(val, out) == IF IsOk(out) THEN out ELSE Ok(val)

try_cast(cast, val) ==
    IF cast \notin CastMapTypes /\ cast \notin DOMAIN EnumMembers
    THEN Raise(Exc("InvalidCast", <<Msg("Unknown type used for Literal")>>))
    ELSE except_Exception(val, IF cast \in CastMapTypes THEN cast_map(cast, val)
                               ELSE EnumOf(cast, val))

\* a tuple object
PyTuple(items) == [t |-> "tuple", items |-> items]

\* the loop of literal_cast(...)._cast from the i-th argument on; literal_step
\* is one round of it, given _try_cast(cast, val)
RECURSIVE literal_scan(_, _, _)

literal_step(args, val, i, tried) ==
    IF ~IsOk(tried) THEN tried
    ELSE IF PyEq(tried.val, args[i]) THEN Ok(args[i])
    ELSE literal_scan(args, val, i + 1)

literal_scan(args, val, i) ==
    IF i > Len(args)
    THEN Raise(Exc("InvalidCast",
                   <<Msg("Value received does not match any argument from literal"),
                     PyTuple(args)>>))
    ELSE literal_step(args, val, i, try_cast(TypeOf(args[i]), val))

\* literal_cast(Literal[args])(val)
literal_cast(args, val) == literal_scan(args, val, 1)

\* The casts a caller hands to a resolver, as terms: [f |-> name, ...]
Cast(f) == [f |-> f]
CastNone == [f |-> "None"]
EnumCast(cls) == [f |-> "enum", cls |-> cls]
WithRule(rule) == [f |-> "with_rule", rule |-> rule]
LiteralCast(args) == [f |-> "literal_cast", args |-> args]
Multicast(often, fallback) == [f |-> "multicast", often |-> often, fallback |-> fallback]
NoneIsMissing(cast) == [f |-> "none_is_missing", cast |-> cast]

\* joined_cast(cast): a _JoinedCast object holding the cast
joined_cast(cast) == [f |-> "_JoinedCast", _cast |-> cast]

\* _JoinedCast.cast(cast): a new _JoinedCast over the _wrapper closure made by
\* self._make_cast(cast)
JoinedCast_make_cast(self, cast) == [f |-> "_wrapper", cast |-> cast, self |-> self]

JoinedCast_cast(self, cast) == joined_cast(JoinedCast_make_cast(self, cast))

\* cast.__name__
CastName(c) == c.f

RECURSIVE ApplyCast(_, _)

\* multicast(often, fallback)(val): its inner try, given fallback(val)
multicast_second(often, fallback, first, second) ==
    IF ~Raises(second, "InvalidCast") THEN second
    ELSE Raise(ExcFrom("InvalidCast",
             <<Fmt("Value received failed both casts: {often!r} and {fallback!r}: {first!r} and {second!r}",
                   <<often, fallback, first.exc, second.exc>>)>>,
             second.exc))

\* an outer try that goes on to fallback(val) after any exception of often(val)
multicast_first_except_any(often, fallback, val, first) ==
    IF IsOk(first) THEN first
    ELSE multicast_second(often, fallback, first, ApplyCast(fallback, val))

\* its outer try, given often(val); fallback(val) is called only on InvalidCast
multicast_first(often, fallback, val, first) ==
    IF ~Raises(first, "InvalidCast") THEN first
    ELSE multicast_second(often, fallback, first, ApplyCast(fallback, val))

multicast(often, fallback, val) ==
    multicast_first(often, fallback, val, ApplyCast(often, val))

\* none_is_missing(cast)(val): exc_message, and _cast given cast(val)
exc_message(cast) ==
    Fmt("Expected value to be castable to {cast.__name__}, but returned None instead",
        <<Msg(CastName(cast))>>)

\* a _cast that returns whatever cast(val) gave
none_is_missing_casted_unchecked(cast, casted) == casted

none_is_missing_casted(cast, casted) ==
    IF ~IsOk(casted) THEN casted
    ELSE IF casted.val = PyNone THEN Raise(Exc("MissingName", <<exc_message(cast)>>))
    ELSE casted

none_is_missing(cast, val) ==
    IF val = PyNone THEN Raise(Exc("MissingName", <<exc_message(cast)>>))
    ELSE none_is_missing_casted(cast, multicast(cast, Cast("null_cast"), val))

\* cast(inner), where inner is the outcome of the call that is its argument
CallOn(cast, inner) == IF IsOk(inner) THEN ApplyCast(cast, inner.val) ELSE inner

\* _JoinedCast.__call__(val)
JoinedCast_call(self, val) == ApplyCast(self._cast, val)

\* a closure that applies the new cast before the casts already chained
JoinedCast_wrapper_new_first(self, cast, val) ==
    CallOn(self._cast, ApplyCast(cast, val))

\* the closure of _make_cast: _wrapper(val) is cast(self._cast(val))
JoinedCast_wrapper(self, cast, val) ==
    CallOn(cast, ApplyCast(self._cast, val))

\* cast(val) for a cast term
ApplyCast(c, val) ==
    CASE c.f = "_default_cast" -> Ok(val)
      [] c.f = "str" -> StrOf(val)
      [] c.f = "int" -> IntOf(val)
      [] c.f = "float" -> FloatOf(val)
      [] c.f = "bool" -> BoolOf(val)
      [] c.f = "enum" -> EnumOf(c.cls, val)
      [] c.f = "_fail_cast" -> Raise(Exc("TypeError", <<>>))
      [] c.f = "surely_fails" ->
            Raise(Exc("ValueError", <<Msg("This function does not work")>>))
      [] c.f = "returns_anything" -> Ok(PyStr(S_anything))
      [] c.f = "boolean_cast" -> boolean_cast(val)
      [] c.f = "boolean_cast.strict" -> boolean_cast_strict(val)
      [] c.f = "null_cast" -> null_cast(val)
      [] c.f = "valid_path" -> valid_path(val)
      [] c.f = "with_rule" -> with_rule(c.rule, val)
      [] c.f = "literal_cast" -> literal_cast(c.args, val)
      [] c.f = "multicast" -> multicast(c.often, c.fallback, val)
      [] c.f = "none_is_missing" -> none_is_missing(c.cast, val)
      [] c.f = "_JoinedCast" -> JoinedCast_call(c, val)
      [] c.f = "_wrapper" -> JoinedCast_wrapper(c.self, c.cast, val)

---------------------------------------------------------------------------
(* Mappings and the plain resolver (Config)                                *)

\* a name as a Python string (names are never taken apart)
PyName(name) == [t |-> "str", name |-> name]

EmptyDict == <<>>

\* mapping.get(name, default)
DictGet(d, name, default) == IF name \in DOMAIN d THEN d[name] ELSE default

\* bool(mapping): None and the empty mapping are falsy
Truthy(m) == m # PyNone /\ DOMAIN m # {}

\* an env file's parsed content (None: no file)
ReadEnvFile(env_file) == IF env_file = PyNone THEN EmptyDict ELSE env_file

\* Config(env_file, mapping): mapping defaults to the process-wide mapping
Config_init(env_file, mapping, environ) ==
    [class |-> "Config",
     _mapping |-> IF mapping = PyNone THEN environ ELSE mapping,
     _file_vals |-> ReadEnvFile(env_file)]

\* the default invoked when it is callable
InvokeDefault(default) == IF Callable(default) THEN PyStr(S_other) ELSE default

\* Config._cast(name, val, cast): a failing cast becomes InvalidCast from the
\* original exception; MissingName alone passes through
Config_cast_except(name, val, out) ==
    IF IsOk(out) \/ Raises(out, "MissingName") THEN out
    ELSE Raise(ExcFrom("InvalidCast", <<PyName(name), val>>, out.exc))

Config_cast(name, val, cast) == Config_cast_except(name, val, ApplyCast(cast, val))

\* Config.get(name, cast, default)
Config_get_val(self, name) ==
    IF name \in DOMAIN self._mapping THEN self._mapping[name]
    ELSE DictGet(self._file_vals, name, MISSING)

Config_get_found(name, cast, default, raw) ==
    IF raw # MISSING THEN Config_cast(name, raw, cast)
    ELSE IF default = MISSING THEN Raise(Exc("MissingName", <<PyName(name)>>))
    ELSE Ok(InvokeDefault(default))

Config_get(self, name, cast, default) ==
    Config_get_found(name, cast, default, Config_get_val(self, name))

\* Config.__call__(name, cast, default)
Config_call(self, name, cast, default) == Config_get(self, name, cast, default)

---------------------------------------------------------------------------
(* The gated resolver of config/envconfig.py                               *)

ENV_RELEVANCY == "TEST" :> 0 @@ "LOCAL" :> 1 @@ "DEV" :> 2 @@ "PRD" :> 3

\* The ByRelevancy objects in use: ByRelevancy(), the one object that is the
\* default argument of every EnvConfig(...)
ByRelevancy ==
    [default |-> [max_relevancy |-> PyEnum("Env", "LOCAL"), env_name |-> "ENV"]]

Unset == [t |-> "unset"]

\* a required_if that takes max_relevancy for the relevancy it cannot read
required_if_closure_lenient(self, env) ==
    Ok([env |-> IF IsOk(env) THEN env.val ELSE ByRelevancy[self].max_relevancy,
        expected |-> ENV_RELEVANCY[ByRelevancy[self].max_relevancy.member]])

\* ByRelevancy.required_if(config) up to its return: the validator closure
\* [env, expected], or the exception of config(self.env_name, Env)
required_if_closure(self, env) ==
    IF ~IsOk(env) THEN env
    ELSE Ok([env |-> env.val,
             expected |-> ENV_RELEVANCY[ByRelevancy[self].max_relevancy.member]])

ByRelevancy_required_if(self, config) ==
    required_if_closure(self,
        Config_call(config, ByRelevancy[self].env_name, EnumCast("Env"), MISSING))

\* validator(_) of ByRelevancy.required_if
validator(closure, name) == ENV_RELEVANCY[closure.env.member] <= closure.expected

\* OptionalConfig.__init__ under EnvConfig.__init__: the new object, or the
\* exception required_if raised
OptionalConfig_init(by_relevancy, super, _mapping, ignore_default, required) ==
    IF ~IsOk(required) THEN required
    ELSE Ok([class |-> "EnvConfig",
             _mapping |-> _mapping,
             _file_vals |-> super._file_vals,
             _by_relevancy |-> by_relevancy,
             _ignore_default |-> ignore_default,
             _required_if |-> required.val])

\* self._mapping = mapping or self._mapping
MappingOr(mapping, super) == IF Truthy(mapping) THEN mapping ELSE super._mapping

EnvConfig_init(by_relevancy, env_file, mapping, ignore_default, environ) ==
    OptionalConfig_init(
        by_relevancy,
        Config_init(env_file, PyNone, environ),
        MappingOr(mapping, Config_init(env_file, PyNone, environ)),
        ignore_default,
        ByRelevancy_required_if(
            by_relevancy,
            Config_init(PyNone, MappingOr(mapping, Config_init(env_file, PyNone, environ)),
                        environ)))

\* OptionalConfig.validate(name); the memo on (self, name) stores what the
\* validator returns, and the validator is constant per object
OptionalConfig_validate(self, name) == validator(self._required_if, name)

\* OptionalConfig._get_value(name, default, ignore_default)
get_value_ignore(self, ignore_default) ==
    IF ignore_default = PyNone THEN self._ignore_default ELSE ignore_default

\* a gate that reads the secondary source before the primary value
get_value_gated_file_first(self, name, inmap) ==
    IF OptionalConfig_validate(self, name)
    THEN DictGet(self._file_vals, name, inmap)
    ELSE inmap

\* the gated read of the secondary source, given self._mapping.get(name, default)
get_value_gated(self, name, inmap) ==
    IF OptionalConfig_validate(self, name) /\ inmap = MISSING
    THEN DictGet(self._file_vals, name, MISSING)
    ELSE inmap

get_value_return(name, value, ignore) ==
    IF value = MISSING /\ ignore.b
    THEN Raise(Exc("MissingName", <<PyName(name)>>))
    ELSE Ok(value)

OptionalConfig_get_value(self, name, default, ignore_default) ==
    get_value_return(name,
                     get_value_gated(self, name, DictGet(self._mapping, name, default)),
                     get_value_ignore(self, ignore_default))

\* a get that calls the cast itself and not self._cast
get_return_unwrapped(name, cast, value) ==
    IF ~IsOk(value) THEN value
    ELSE IF cast = CastNone THEN value
    ELSE ApplyCast(cast, value.val)

\* OptionalConfig.get(name, cast, default, ignore_default), given
\* self._get_value(name, default, ignore_default)
get_return(name, cast, value) ==
    IF ~IsOk(value) THEN value
    ELSE IF cast = CastNone THEN value
    ELSE Config_cast(name, value.val, cast)

OptionalConfig_get(self, name, cast, default, ignore_default) ==
    get_return(name, cast, OptionalConfig_get_value(self, name, default, ignore_default))

\* OptionalConfig.__call__(name, cast, default, ignore_default)
OptionalConfig_call(self, name, cast, default, ignore_default) ==
    OptionalConfig_get(self, name, cast, default, ignore_default)

\* EnvConfig.env
EnvConfig_env(self, envs) == envs[self._by_relevancy]

---------------------------------------------------------------------------
(* The inputs of the resolver's operations                                 *)

Names == {"ENV", "NAME"}

EnvValues == {S_test, S_local, S_dev, S_prd}

\* the mapping argument of a constructor
MappingArgs ==
    {PyNone, EmptyDict}
    \cup {("ENV" :> PyStr(e)) : e \in EnvValues \cup {S_invalid}}
    \cup {("ENV" :> PyStr(e) @@ "NAME" :> PyStr(S_42)) : e \in EnvValues}
    \cup {("NAME" :> PyStr(S_42)),
          ("ENV" :> PyStr(S_local) @@ "NAME" :> PyStr(S_null))}

\* the process-wide mapping at the time of a construction
Environs == {EmptyDict, ("ENV" :> PyStr(S_prd))}

\* the env_file argument, by its parsed content
EnvFiles == {PyNone, ("NAME" :> PyStr(S_teste))}

\* Literal[1, "other", b"another", Test.VALUE, None, False]
LiteralTest ==
    <<PyInt(1), PyStr(S_other), PyBytes(S_another), PyEnum("Test", "VALUE"),
      PyNone, PyBool(FALSE)>>

\* the cast argument of a call, besides the default one: the casts tried with
\* every default and ignore_default, and those tried on the plain call only
Casts == {Cast("int")}
FailingCasts ==
    {Cast("_fail_cast"), Cast("valid_path"), WithRule("less_than_40"),
     LiteralCast(LiteralTest), NoneIsMissing(Cast("null_cast"))}

\* the cast a call without cast argument gets
DefaultCast(class) == IF class = "Config" THEN Cast("_default_cast") ELSE CastNone

Defaults == {MISSING, PyStr(S_dflt), PyFunc("lazy_default")}

IgnoreDefaultArgs == {PyNone, PyBool(TRUE), PyBool(FALSE)}

BRIds == DOMAIN ByRelevancy

---------------------------------------------------------------------------
(* The state machine of the resolvers                                      *)

NoConfig == [class |-> "none"]
NoOp == [op |-> "none"]
NotCalled == [kind |-> "none"]
IdleMapping == [_mapping |-> EmptyDict, _already_read |-> {}]
IdlePure == [fn |-> "none"]

InitResolver ==
    /\ cfg = NoConfig
    /\ held = NoConfig
    /\ by_relevancy_env = [b \in BRIds |-> Unset]
    /\ last = NoOp

Init ==
    /\ InitResolver
    /\ env_mapping = IdleMapping
    /\ cached = EmptyDict
    /\ pure = IdlePure

\* cfg = Config(mapping=mapping)
NewConfig(mapping, environ) ==
    /\ cfg' = Config_init(PyNone, mapping, environ)
    /\ last' = [op |-> "Config.__init__"]
    /\ UNCHANGED <<by_relevancy_env, env_mapping, cached, pure, held>>

\* cfg = EnvConfig(by_relevancy, env_file, mapping, ignore_default), given what
\* the constructor did (out) and the mapping it read env_name from (primary);
\* when the constructor raises, nothing is bound and required_if has set no
\* attribute
NewEnvConfig(by_relevancy, primary, out) ==
    /\ cfg' = IF IsOk(out) THEN out.val ELSE cfg
    /\ by_relevancy_env' =
           IF IsOk(out)
           THEN [by_relevancy_env EXCEPT ![by_relevancy] = out.val._required_if.env]
           ELSE by_relevancy_env
    /\ last' = [out |-> IF IsOk(out) THEN Ok(PyNone) ELSE out,
                by_relevancy |-> by_relevancy,
                op |-> "EnvConfig.__init__",
                primary |-> primary]
    /\ UNCHANGED <<env_mapping, cached, pure, held>>

\* cfg(name, cast, default, ignore_default): Config.__call__ takes no
\* ignore_default
Call(name, cast, default, ignore_default) ==
    /\ cfg # NoConfig
    /\ cfg.class = "Config" => ignore_default = PyNone
    /\ last' = [name |-> name,
                out |-> IF cfg.class = "Config"
                        THEN Config_call(cfg, name, cast, default)
                        ELSE OptionalConfig_call(cfg, name, cast, default,
                                                 ignore_default),
                cast |-> cast,
                default |-> default,
                ignore_default |-> ignore_default,
                op |-> "__call__"]
    /\ UNCHANGED <<cfg, by_relevancy_env, env_mapping, cached, pure, held>>

\* the process-wide mapping is read only when no mapping is given
EnvironsFor(mapping) == IF Truthy(mapping) THEN {EmptyDict} ELSE Environs

Next ==
    \/ \E m \in MappingArgs : \E e \in EnvironsFor(m) : NewConfig(m, e)
    \/ \E b \in BRIds, f \in EnvFiles, m \in MappingArgs, i \in BOOLEAN :
           \E e \in EnvironsFor(m) :
               NewEnvConfig(b, IF Truthy(m) THEN m ELSE e,
                            EnvConfig_init(b, f, m, PyBool(i), e))
    \/ \E n \in Names, c \in Casts \cup {DefaultCast(cfg.class)}, d \in Defaults,
          i \in IgnoreDefaultArgs :
           Call(n, c, d, i)
    \/ \E n \in Names, c \in FailingCasts : Call(n, c, MISSING, PyNone)

Spec == Init /\ [][Next]_vars

\* held = cfg: the program keeps a second reference to the resolver it built
Hold ==
    /\ cfg # NoConfig
    /\ held' = cfg
    /\ UNCHANGED <<cfg, by_relevancy_env, last, env_mapping, cached, pure>>

\* several resolvers built one after the other, an earlier one still in use
NextInstances ==
    \/ \E b \in BRIds, f \in EnvFiles, m \in MappingArgs, i \in BOOLEAN :
           \E e \in EnvironsFor(m) :
               NewEnvConfig(b, IF Truthy(m) THEN m ELSE e,
                            EnvConfig_init(b, f, m, PyBool(i), e))
    \/ Hold

SpecInstances == Init /\ [][NextInstances]_vars

---------------------------------------------------------------------------
(* The write-once mapping: EnvMapping of config/mapping.py                 *)

DictSet(d, k, v) == [x \in DOMAIN d \cup {k} |-> IF x = k THEN v ELSE d[x]]
DictDel(d, k) == [x \in DOMAIN d \ {k} |-> d[x]]

KeyError(name) == Raise(Exc("KeyError", <<PyName(name)>>))

\* EnvMapping(mapping)
EnvMapping_init(mapping) == [_mapping |-> mapping, _already_read |-> {}]

\* self[name], as the object afterwards and the outcome: a key that is found
\* is marked read; whether one that is not found is marked too is left open
\* (marks)
EnvMapping_getitem(self, name, marks) ==
    IF name \in DOMAIN self._mapping
    THEN [out |-> Ok(self._mapping[name]),
          self |-> [self EXCEPT !._already_read = @ \cup {name}]]
    ELSE [out |-> KeyError(name),
          self |-> IF marks THEN [self EXCEPT !._already_read = @ \cup {name}] ELSE self]

\* self[name] = value
EnvMapping_setitem(self, name, value) ==
    IF name \in self._already_read
    THEN [out |-> KeyError(name), self |-> self]
    ELSE [out |-> Ok(PyNone), self |-> [self EXCEPT !._mapping = DictSet(@, name, value)]]

\* a delete that does not look at the keys read
EnvMapping_delitem_unguarded(self, name) ==
    IF name \notin DOMAIN self._mapping
    THEN [out |-> KeyError(name), self |-> self]
    ELSE [out |-> Ok(PyNone), self |-> [self EXCEPT !._mapping = DictDel(@, name)]]

\* del self[name]
EnvMapping_delitem(self, name) ==
    IF name \in self._already_read \/ name \notin DOMAIN self._mapping
    THEN [out |-> KeyError(name), self |-> self]
    ELSE [out |-> Ok(PyNone), self |-> [self EXCEPT !._mapping = DictDel(@, name)]]

S_val == <<"v", "a", "l">>
S_error == <<"e", "r", "r", "o", "r">>

Keys == {"my-name", "key"}
Values == {PyStr(S_val), PyStr(S_error)}
InitialMappings == {EmptyDict, ("key" :> PyStr(S_value))}

InitMapping ==
    /\ InitResolver
    /\ \E m \in InitialMappings : env_mapping = EnvMapping_init(m)
    /\ cached = EmptyDict
    /\ pure = IdlePure

\* env_mapping[name]
GetItem(name, marks) ==
    /\ env_mapping' = EnvMapping_getitem(env_mapping, name, marks).self
    /\ last' = [name |-> name,
                out |-> EnvMapping_getitem(env_mapping, name, marks).out,
                op |-> "__getitem__"]
    /\ UNCHANGED <<cfg, by_relevancy_env, cached, pure, held>>

\* env_mapping[name] = value
SetItem(name, value) ==
    /\ env_mapping' = EnvMapping_setitem(env_mapping, name, value).self
    /\ last' = [name |-> name, value |-> value,
                out |-> EnvMapping_setitem(env_mapping, name, value).out,
                op |-> "__setitem__"]
    /\ UNCHANGED <<cfg, by_relevancy_env, cached, pure, held>>

\* del env_mapping[name]
DelItem(name) ==
    /\ env_mapping' = EnvMapping_delitem(env_mapping, name).self
    /\ last' = [name |-> name,
                out |-> EnvMapping_delitem(env_mapping, name).out,
                op |-> "__delitem__"]
    /\ UNCHANGED <<cfg, by_relevancy_env, cached, pure, held>>

NextMapping ==
    \/ \E name \in Keys, marks \in BOOLEAN : GetItem(name, marks)
    \/ \E name \in Keys, value \in Values : SetItem(name, value)
    \/ \E name \in Keys : DelItem(name)

SpecMapping == InitMapping /\ [][NextMapping]_vars

---------------------------------------------------------------------------
(* The caching resolver: CachedConfig of config/config.py                  *)

\* CachedConfig(mapping=mapping)
CachedConfig_init(mapping) ==
    [class |-> "CachedConfig", _mapping |-> mapping, _file_vals |-> EmptyDict]

\* the entry made for a name by the resolution that returns
CachedConfig_store(_cached, name, cast, out) ==
    [out |-> out,
     _cached |-> IF IsOk(out) THEN DictSet(_cached, name, [val |-> out.val, cast |-> cast])
                 ELSE _cached]

\* a cache that replays an entry only to the cast that made it
CachedConfig_get_by_cast(self, _cached, name, cast, default) ==
    IF name \in DOMAIN _cached /\ _cached[name].cast = cast
    THEN [out |-> Ok(_cached[name].val), _cached |-> _cached]
    ELSE CachedConfig_store(_cached, name, cast, Config_get(self, name, cast, default))

\* CachedConfig.get(name, cast, default), as the cache afterwards and the
\* outcome
CachedConfig_get(self, _cached, name, cast, default) ==
    IF name \in DOMAIN _cached
    THEN [out |-> Ok(_cached[name].val), _cached |-> _cached]
    ELSE CachedConfig_store(_cached, name, cast, Config_get(self, name, cast, default))

CachedMappings ==
    {("NAME" :> PyStr(S_42)),
     ("NAME" :> PyStr(S_true) @@ "ENV" :> PyStr(S_1)),
     ("ENV" :> PyStr(S_other))}

CachedCasts ==
    {Cast("_default_cast"), Cast("str"), Cast("int"), Cast("bool"),
     Cast("boolean_cast.strict"), Cast("_fail_cast")}

CachedDefaults == {MISSING, PyStr(S_dflt)}

InitCached ==
    /\ \E m \in CachedMappings : cfg = CachedConfig_init(m)
    /\ held = NoConfig
    /\ by_relevancy_env = [b \in BRIds |-> Unset]
    /\ last = NoOp
    /\ env_mapping = IdleMapping
    /\ cached = EmptyDict
    /\ pure = IdlePure

\* cfg(name, cast, default) on the caching resolver, given what get does
CachedCall(name, cast, default, done) ==
    /\ cached' = done._cached
    /\ last' = [name |-> name, out |-> done.out, cast |-> cast, default |-> default,
                op |-> "__call__"]
    /\ UNCHANGED <<cfg, by_relevancy_env, env_mapping, pure, held>>

NextCached ==
    \E name \in Names, cast \in CachedCasts, default \in CachedDefaults :
        CachedCall(name, cast, default, CachedConfig_get(cfg, cached, name, cast, default))

SpecCached == InitCached /\ [][NextCached]_vars

---------------------------------------------------------------------------
(* The cast helpers applied on their own                                   *)

\* the candidate tuples of the literal declarations tried
LiteralDecls ==
    {LiteralTest,
     <<PyBool(TRUE), PyInt(1)>>,
     <<PyInt(1), PyBool(TRUE)>>,
     <<PyBool(FALSE), PyInt(0)>>,
     <<PyStr(S_1), PyInt(1)>>,
     <<PyNone, PyStr(S_null)>>,
     <<PyInt(1), PyStr(S_two), PyFloat(S_3p0)>>}

PureCasts == {LiteralCast(args) : args \in LiteralDecls}

PureInputs ==
    {S_other, S_another, S_1, S_value, S_null, S_false, S_invalid, S_0, S_01,
     S_sp1, S_true, S_True, S_False, S_empty, S_none, S_None, S_Other, S_VALUE,
     S_two, S_3p0, S_42}

\* boolean_cast in its two forms
BooleanCasts == {Cast("boolean_cast"), Cast("boolean_cast.strict")}

\* multicast over the casts of the tests and over the helpers
MulticastCasts ==
    {Multicast(Cast("int"), Cast("surely_fails")),
     Multicast(Cast("boolean_cast.strict"), Cast("surely_fails")),
     Multicast(Cast("returns_anything"), Cast("surely_fails")),
     Multicast(Cast("boolean_cast.strict"), Cast("null_cast")),
     Multicast(Cast("boolean_cast.strict"), Cast("int")),
     Multicast(Cast("null_cast"), Cast("boolean_cast.strict")),
     Multicast(Cast("null_cast"), Cast("surely_fails")),
     Multicast(Multicast(Cast("boolean_cast.strict"), Cast("null_cast")), Cast("int"))}

\* none_is_missing over the helpers and the builtins
NoneIsMissingCasts ==
    {NoneIsMissing(Cast("boolean_cast")),
     NoneIsMissing(Cast("boolean_cast.strict")),
     NoneIsMissing(Cast("null_cast")),
     NoneIsMissing(Cast("int")),
     NoneIsMissing(Cast("returns_anything"))}

\* the casts chained, and the chains joined_cast(f).cast(g).cast(h)
ChainCasts == {Cast("int"), Cast("float"), Cast("str"), Cast("boolean_cast")}

JoinedCasts ==
    {JoinedCast_cast(JoinedCast_cast(joined_cast(f), g), h) : f, g, h \in ChainCasts}

\* the helpers tried beside literal_cast
HelperCasts == BooleanCasts \cup MulticastCasts \cup NoneIsMissingCasts \cup JoinedCasts

\* the values handed to them: strings, and values that are already cast
HelperInputs ==
    {PyStr(v) : v \in PureInputs \cup {S_TRUE, S_fAlSe}}
        \cup {PyBool(TRUE), PyBool(FALSE), PyNone}

\* the calls tried: <<cast, value>>
PureCalls ==
    (PureCasts \X {PyStr(v) : v \in PureInputs}) \cup (HelperCasts \X HelperInputs)

InitCast ==
    /\ InitResolver
    /\ env_mapping = IdleMapping
    /\ cached = EmptyDict
    /\ \E call \in PureCalls :
           pure = [val |-> call[2], out |-> NotCalled, cast |-> call[1]]

\* out = cast(val)
Apply ==
    /\ pure.out = NotCalled
    /\ pure' = [pure EXCEPT !.out = ApplyCast(pure.cast, pure.val)]
    /\ UNCHANGED <<cfg, by_relevancy_env, last, env_mapping, cached, held>>

\* the cast handed to a resolver whose mapping holds the value under NAME, as
\* the tests do: cfg = Config(mapping={"NAME": val}), then cfg("NAME", cast)
NextCast ==
    \/ Apply
    \/ cfg = NoConfig /\ pure.val.t = "str"
            /\ NewConfig("NAME" :> pure.val, EmptyDict)
    \/ last.op = "Config.__init__" /\ Call("NAME", pure.cast, MISSING, PyNone)

SpecCast == InitCast /\ [][NextCast]_vars

---------------------------------------------------------------------------
(* Properties of the resolvers                                             *)

IsCall == last.op = "__call__"

\* the rank of the relevancy a primary mapping names (it names a valid one
\* whenever an EnvConfig was built from it)
RankIn(mapping) == ENV_RELEVANCY[EnumOf("Env", mapping["ENV"]).val.member]

\* the gate of an EnvConfig, from its own primary mapping and its maximum
GateApproves(c) ==
    RankIn(c._mapping) <= ENV_RELEVANCY[ByRelevancy[c._by_relevancy].max_relevancy.member]

\* the resolver consults its secondary source for a name its primary lacks
ConsultsFile(c) == c.class = "Config" \/ GateApproves(c)

AbsentEverywhere(c, name) ==
    /\ name \notin DOMAIN c._mapping
    /\ ConsultsFile(c) => name \notin DOMAIN c._file_vals

\* the raw value a lookup of name resolves from the sources, or MISSING
RawOf(c, name) ==
    IF name \in DOMAIN c._mapping THEN c._mapping[name]
    ELSE IF ConsultsFile(c) /\ name \in DOMAIN c._file_vals THEN c._file_vals[name]
    ELSE MISSING

\* C1: a call without cast, for a name the primary mapping holds, returns the
\* mapping's value unchanged, a string, whatever default and ignore_default
\* the call gives (Config and EnvConfig alike)
C1_ReturnsMappingValue ==
    (IsCall /\ last.cast = DefaultCast(cfg.class) /\ last.name \in DOMAIN cfg._mapping)
        => /\ last.out = Ok(cfg._mapping[last.name])
           /\ last.out.val.t = "str"

C1_Witness ==
    /\ IsCall
    /\ cfg.class = "EnvConfig"
    /\ last.cast = CastNone
    /\ last.name = "NAME"
    /\ "NAME" \in DOMAIN cfg._mapping
    /\ "NAME" \in DOMAIN cfg._file_vals
    /\ GateApproves(cfg)
    /\ last.out = Ok(PyStr(S_42))

\* C2: a call with no default, for a name absent from every source the
\* resolver consults, raises MissingName
C2_AbsentRaisesMissingName ==
    (IsCall /\ last.default = MISSING /\ AbsentEverywhere(cfg, last.name))
        => Raises(last.out, "MissingName")

\* C3 as claimed: a cast that raises on the raw value of a present name makes
\* the call raise InvalidCast whose cause is the cast's exception, whatever
\* the exception
C3_EveryCastFailureIsInvalidCast ==
    (/\ IsCall
     /\ last.cast # DefaultCast(cfg.class)
     /\ RawOf(cfg, last.name) # MISSING
     /\ last.name \notin DOMAIN cfg._mapping => last.default = MISSING
     /\ ~IsOk(ApplyCast(last.cast, RawOf(cfg, last.name))))
        => /\ Raises(last.out, "InvalidCast")
           /\ last.out.exc.cause = ApplyCast(last.cast, RawOf(cfg, last.name)).exc

\* C3: a cast that raises anything but MissingName on the raw value of a
\* present name makes the call raise InvalidCast whose cause is the cast's
\* exception; a MissingName raised by the cast reaches the caller as it is
C3_CastFailureIsInvalidCast ==
    (/\ IsCall
     /\ last.cast # DefaultCast(cfg.class)
     /\ RawOf(cfg, last.name) # MISSING
     /\ last.name \notin DOMAIN cfg._mapping => last.default = MISSING
     /\ ~IsOk(ApplyCast(last.cast, RawOf(cfg, last.name))))
        => IF Raises(ApplyCast(last.cast, RawOf(cfg, last.name)), "MissingName")
           THEN last.out = ApplyCast(last.cast, RawOf(cfg, last.name))
           ELSE /\ Raises(last.out, "InvalidCast")
                /\ last.out.exc.cause = ApplyCast(last.cast, RawOf(cfg, last.name)).exc

C3_Witness ==
    /\ IsCall
    /\ cfg.class = "EnvConfig"
    /\ last.cast = WithRule("less_than_40")
    /\ RawOf(cfg, last.name) = PyStr(S_42)
    /\ Raises(last.out, "InvalidCast")
    /\ last.out.exc.cause.type = "InvalidEnv"

\* C4: a lookup (no cast, no default) on an EnvConfig, for a name only the
\* secondary source holds, returns the secondary value when the relevancy
\* ranks at or below the maximum and raises MissingName when it ranks above
C4_GatedLookup ==
    (/\ IsCall
     /\ cfg.class = "EnvConfig"
     /\ last.cast = CastNone
     /\ last.default = MISSING
     /\ last.name \notin DOMAIN cfg._mapping
     /\ last.name \in DOMAIN cfg._file_vals)
        => IF GateApproves(cfg)
           THEN last.out = Ok(cfg._file_vals[last.name])
           ELSE Raises(last.out, "MissingName")

\* C5: EnvConfig(...) raises MissingName when its primary mapping lacks
\* env_name and InvalidCast when the value there is no Env; and every
\* EnvConfig there is holds the relevancy its own primary mapping names
C5_ConstructionFailsFast ==
    /\ last.op = "EnvConfig.__init__" =>
          LET env_name == ByRelevancy[last.by_relevancy].env_name
          IN IF env_name \notin DOMAIN last.primary
             THEN Raises(last.out, "MissingName")
             ELSE IF last.primary[env_name].s \notin EnvValues
             THEN Raises(last.out, "InvalidCast")
             ELSE last.out = Ok(PyNone) /\ cfg.class = "EnvConfig"
                  /\ cfg._mapping = last.primary
    /\ cfg.class = "EnvConfig" =>
          /\ "ENV" \in DOMAIN cfg._mapping
          /\ cfg._mapping["ENV"].s \in EnvValues
          /\ cfg._required_if.env = EnumOf("Env", cfg._mapping["ENV"]).val

C5_Witness ==
    /\ last.op = "EnvConfig.__init__"
    /\ Raises(last.out, "InvalidCast")
    /\ last.out.exc.cause.type = "ValueError"
    /\ cfg.class = "EnvConfig"

\* C6: with the name absent from the primary mapping, present in the
\* secondary source and the gate approving, the lookup resolves the secondary
\* value whether or not a default is given
C6_SecondaryBeforeDefault ==
    (/\ IsCall
     /\ cfg.class = "EnvConfig"
     /\ last.name \notin DOMAIN cfg._mapping
     /\ last.name \in DOMAIN cfg._file_vals
     /\ GateApproves(cfg))
        => last.out = IF last.cast = CastNone THEN Ok(cfg._file_vals[last.name])
                      ELSE Config_cast(last.name, cfg._file_vals[last.name], last.cast)

\* C7: with the name absent and a default given, the call returns the default
\* (its result when it is callable), and the cast is not applied to it
C7_DefaultReturnedUncast ==
    (IsCall /\ last.default # MISSING /\ AbsentEverywhere(cfg, last.name))
        => last.out = Ok(InvokeDefault(last.default))

\* C15: a call of an OptionalConfig or EnvConfig never returns the MISSING
\* marker: a lookup that finds no value in any consulted source and has no
\* default raises MissingName or InvalidCast, whatever ignore_default is
C15_NeverReturnsMissing ==
    (IsCall /\ cfg.class # "Config") =>
        /\ last.out # Ok(MISSING)
        /\ (last.default = MISSING /\ AbsentEverywhere(cfg, last.name)) =>
              (Raises(last.out, "MissingName") \/ Raises(last.out, "InvalidCast"))

\* the EnvConfig objects the program references
Instances == {c \in {cfg, held} : c.class = "EnvConfig"}

\* the relevancy a resolver's own primary mapping names
OwnEnv(c) == EnumOf("Env", c._mapping[ByRelevancy[c._by_relevancy].env_name]).val

\* the maximum relevancy of a resolver's ByRelevancy
MaxRank(c) == ENV_RELEVANCY[ByRelevancy[c._by_relevancy].max_relevancy.member]

\* C16: the env property of every EnvConfig in use is the relevancy its own
\* primary mapping named at its construction, and validate(name) is true
\* exactly when the rank of that env is at most the rank of max_relevancy
C16_EnvIsOwnRelevancy ==
    \A c \in Instances :
        /\ EnvConfig_env(c, by_relevancy_env) = OwnEnv(c)
        /\ \A n \in Names :
               OptionalConfig_validate(c, n)
                   <=> ENV_RELEVANCY[EnvConfig_env(c, by_relevancy_env).member] <= MaxRank(c)

---------------------------------------------------------------------------
(* Properties of the write-once mapping and of the caching resolver        *)

\* the keys that were written and then read
WrittenAndRead(m) == m._already_read \cap DOMAIN m._mapping

\* C8: a key that was written and read stays read and keeps the value it was
\* read with through every later operation, and every later write or delete
\* of it raises KeyError
C8_WriteOnceAfterRead ==
    [][\A k \in WrittenAndRead(env_mapping) :
          /\ k \in WrittenAndRead(env_mapping')
          /\ env_mapping'._mapping[k] = env_mapping._mapping[k]
          /\ (last'.op \in {"__setitem__", "__delitem__"} /\ last'.name = k)
                => Raises(last'.out, "KeyError")]_vars

C8_Witness ==
    /\ last.op = "__delitem__"
    /\ last.name = "my-name"
    /\ Raises(last.out, "KeyError")
    /\ "my-name" \in env_mapping._already_read
    /\ "my-name" \in DOMAIN env_mapping._mapping
    /\ env_mapping._mapping["my-name"] = PyStr(S_val)

\* C9: an entry of the cache is never dropped or changed, a call for a name
\* that has an entry returns the entry's value whatever cast and default it
\* gives, and the first call for a name that returns makes the entry from
\* what it returns
C9_CachedReplay ==
    [][/\ \A n \in DOMAIN cached :
             /\ n \in DOMAIN cached'
             /\ cached'[n] = cached[n]
             /\ last'.name = n => last'.out = Ok(cached[n].val)
       /\ \A n \in Names \ DOMAIN cached :
             (last'.name = n /\ IsOk(last'.out))
                 => /\ n \in DOMAIN cached'
                    /\ cached'[n] = [val |-> last'.out.val, cast |-> last'.cast]]_vars

C9_Witness ==
    /\ IsCall
    /\ cfg.class = "CachedConfig"
    /\ last.name = "NAME"
    /\ last.cast = Cast("bool")
    /\ "NAME" \in DOMAIN cached
    /\ cached["NAME"] = [val |-> PyStr(S_42), cast |-> Cast("str")]
    /\ last.out = Ok(PyStr(S_42))

---------------------------------------------------------------------------
(* Properties of the cast helpers                                          *)

Applied == pure # IdlePure /\ pure.out # NotCalled

\* the types literal_cast has a caster for
LiteralTypes == CastMapTypes \cup DOMAIN EnumMembers

AppliedLiteral ==
    /\ Applied
    /\ pure.cast.f = "literal_cast"
    /\ \A i \in DOMAIN pure.cast.args : TypeOf(pure.cast.args[i]) \in LiteralTypes

\* the input cast to the candidate's type, when that cast returns
CastTo(arg, val) ==
    CASE arg.t = "str" -> StrOf(val)
      [] arg.t = "int" -> IntOf(val)
      [] arg.t = "bytes" -> EncodeOf(val)
      [] arg.t = "bool" -> boolean_cast_strict(val)
      [] arg.t = "NoneType" -> null_cast(val)
      [] arg.t = "enum" -> EnumOf(arg.cls, val)

Matches(arg, val) == IsOk(CastTo(arg, val)) /\ CastTo(arg, val).val = arg

Hits(args, val) == {i \in DOMAIN args : Matches(args[i], val)}

First(hits) == CHOOSE i \in hits : \A j \in hits : i <= j

NoMatch(args) ==
    Exc("InvalidCast",
        <<Msg("Value received does not match any argument from literal"), PyTuple(args)>>)

FirstMatch(args, hits, out) ==
    IF hits = {} THEN out = Raise(NoMatch(args)) ELSE out = Ok(args[First(hits)])

\* an exception names a value: the value is one of its arguments or is
\* formatted into one of its messages
NamesValue(exc, v) ==
    \E i \in DOMAIN exc.args :
        \/ exc.args[i] = v
        \/ /\ "parts" \in DOMAIN exc.args[i]
           /\ \E j \in DOMAIN exc.args[i].parts : exc.args[i].parts[j] = v

\* C10 as claimed: the InvalidCast of an input no candidate matches names the
\* received value and the candidate tuple
C10_NoMatchNamesReceivedValue ==
    (AppliedLiteral /\ Hits(pure.cast.args, pure.val) = {})
        => /\ Raises(pure.out, "InvalidCast")
           /\ NamesValue(pure.out.exc, PyTuple(pure.cast.args))
           /\ NamesValue(pure.out.exc, pure.val)

\* C10: literal_cast returns the first candidate, in declaration order, that
\* equals the input cast to the candidate's type, and when there is none it
\* raises InvalidCast with the fixed message and the candidate tuple, which
\* does not name the received value
C10_FirstMatchInOrder ==
    /\ AppliedLiteral =>
          /\ FirstMatch(pure.cast.args, Hits(pure.cast.args, pure.val), pure.out)
          /\ ~IsOk(pure.out) => ~NamesValue(pure.out.exc, pure.val)
    /\ (Applied /\ pure.cast = LiteralCast(LiteralTest)) =>
          /\ pure.val = PyStr(S_other) => pure.out = Ok(PyStr(S_other))
          /\ pure.val = PyStr(S_1) => pure.out = Ok(PyInt(1))
          /\ pure.val = PyStr(S_invalid) => Raises(pure.out, "InvalidCast")

C10_Witness ==
    /\ Applied
    /\ pure.cast = LiteralCast(<<PyBool(TRUE), PyInt(1)>>)
    /\ pure.val = PyStr(S_1)
    /\ Hits(pure.cast.args, pure.val) = {1, 2}
    /\ pure.out = Ok(PyBool(TRUE))

\* s spells word in some mix of upper and lower case
Spells(s, word) ==
    /\ Len(s) = Len(word)
    /\ \A i \in 1..Len(word) :
           s[i] = word[i] \/ (s[i] \in DOMAIN UpperToLower /\ UpperToLower[s[i]] = word[i])

SpellsTrue(s) == Spells(s, <<"t", "r", "u", "e">>) \/ s = <<"1">>

SpellsFalse(s) == Spells(s, <<"f", "a", "l", "s", "e">>) \/ s = <<"0">> \/ s = <<>>

AppliedBoolean == Applied /\ pure.cast \in BooleanCasts

AppliedMulticast == Applied /\ pure.cast.f = "multicast"

\* the single InvalidCast of two failed casts: it names both casts and both
\* failures, and the second failure is its cause
FailedBoth(out, often, fallback, first, second) ==
    /\ Raises(out, "InvalidCast")
    /\ Len(out.exc.args) = 1
    /\ NamesValue(out.exc, often)
    /\ NamesValue(out.exc, fallback)
    /\ NamesValue(out.exc, first.exc)
    /\ NamesValue(out.exc, second.exc)
    /\ out.exc.cause = second.exc

\* the outcome of multicast from the outcomes of its two casts, where every
\* failure of the fallback is taken to end in the single InvalidCast
MulticastAsClaimed(out, often, fallback, first, second) ==
    /\ IsOk(first) => out = first
    /\ (Raises(first, "InvalidCast") /\ IsOk(second)) => out = second
    /\ (Raises(first, "InvalidCast") /\ ~IsOk(second)) =>
          FailedBoth(out, often, fallback, first, second)

\* the outcome of multicast from the outcomes of its two casts
MulticastOutcome(out, often, fallback, first, second) ==
    /\ IsOk(first) => out = first
    /\ (~IsOk(first) /\ ~Raises(first, "InvalidCast")) => out = first
    /\ (Raises(first, "InvalidCast") /\ IsOk(second)) => out = second
    /\ (Raises(first, "InvalidCast") /\ Raises(second, "InvalidCast")) =>
          FailedBoth(out, often, fallback, first, second)
    /\ (Raises(first, "InvalidCast") /\ ~IsOk(second) /\ ~Raises(second, "InvalidCast")) =>
          out = second

\* C12 as claimed: the result of often when it succeeds, the result of
\* fallback when often raises InvalidCast, and one InvalidCast naming both
\* casts and both failures whenever both fail
C12_BothFailuresGiveOneInvalidCast ==
    AppliedMulticast =>
        MulticastAsClaimed(pure.out, pure.cast.often, pure.cast.fallback,
                           ApplyCast(pure.cast.often, pure.val),
                           ApplyCast(pure.cast.fallback, pure.val))

\* C12: multicast returns the result of often when it succeeds, whatever
\* fallback would do; when often raises InvalidCast it returns the result of
\* fallback; when both raise InvalidCast it raises one InvalidCast naming both
\* casts and both failures, caused by the second; an exception of either cast
\* that is not an InvalidCast leaves multicast unchanged, and after such an
\* exception of often the fallback is not tried
C12_FallbackOnInvalidCast ==
    AppliedMulticast =>
        MulticastOutcome(pure.out, pure.cast.often, pure.cast.fallback,
                         ApplyCast(pure.cast.often, pure.val),
                         ApplyCast(pure.cast.fallback, pure.val))

C12_Witness ==
    /\ Applied
    /\ pure.cast = Multicast(Cast("boolean_cast.strict"), Cast("null_cast"))
    /\ pure.val = PyStr(S_42)
    /\ Raises(boolean_cast_strict(pure.val), "InvalidCast")
    /\ Raises(null_cast(pure.val), "InvalidCast")
    /\ Raises(pure.out, "InvalidCast")
    /\ pure.out.exc.cause = null_cast(pure.val).exc

AppliedNoneIsMissing == Applied /\ pure.cast.f = "none_is_missing"

\* a marker of the null cast in any mix of case
SpellsNull(val) ==
    /\ val.t = "str"
    /\ Spells(val.s, <<"n", "u", "l", "l">>) \/ Spells(val.s, <<"n", "o", "n", "e">>)
          \/ val.s = <<>>

\* the wrapped cast, with the null cast as its fallback, yields None
YieldsNone(val, casted) ==
    \/ casted = Ok(PyNone)
    \/ Raises(casted, "InvalidCast") /\ SpellsNull(val)

\* the outcome of none_is_missing(cast)(val), given cast(val)
NoneIsMissingOutcome(out, val, casted) ==
    /\ out # Ok(PyNone)
    /\ (val = PyNone \/ YieldsNone(val, casted)) => Raises(out, "MissingName")
    /\ (val # PyNone /\ IsOk(casted) /\ casted.val # PyNone) => out = casted

\* the resolver called with the same cast on the same value
ResolvedPure ==
    /\ IsCall
    /\ last.cast = pure.cast
    /\ cfg._mapping[last.name] = pure.val

\* C13: none_is_missing(cast) raises MissingName for None and for every value
\* on which the cast, with the null cast as its fallback, yields None, and
\* never returns None; a resolver called with it on a present name raises
\* that MissingName and not an InvalidCast; for every other value the cast's
\* result is returned
C13_NoneIsMissingName ==
    /\ AppliedNoneIsMissing =>
          NoneIsMissingOutcome(pure.out, pure.val, ApplyCast(pure.cast.cast, pure.val))
    /\ (AppliedNoneIsMissing /\ ResolvedPure /\ Raises(pure.out, "MissingName")) =>
          last.out = pure.out

C13_Witness ==
    /\ Applied
    /\ pure.cast = NoneIsMissing(Cast("boolean_cast"))
    /\ pure.val = PyStr(S_null)
    /\ boolean_cast(pure.val) = Ok(PyNone)
    /\ Raises(pure.out, "MissingName")
    /\ ResolvedPure
    /\ Raises(last.out, "MissingName")

AppliedJoined == Applied /\ pure.cast \in JoinedCasts

\* h(g(f(x))), an exception of a cast ending the evaluation
Composed(f, g, h, x) == CallOn(h, CallOn(g, ApplyCast(f, x)))

====
